---------------------------- MODULE Spec2Model ----------------------------
(***************************************************************************)
(* A model of the image editor: ImageProcessor (src/image_processor.py),   *)
(* HistoryManager (src/history_manager.py) and the handlers of             *)
(* ImageEditorApp (src/gui_app.py).                                        *)
(*                                                                         *)
(* A pixel buffer is a record [id, w, h, px]: px is a sequence of h rows   *)
(* of w pixels, a pixel is <<b, g, r>> with channels in 0..255, and id is  *)
(* the identity of the numpy array object (two references alias exactly    *)
(* when their ids are equal).  None is the absent buffer.                  *)
(***************************************************************************)
EXTENDS Integers, Sequences, FiniteSets, TLC

VARIABLES
    image,                  \* ImageProcessor.image
    undo_stack,             \* HistoryManager.undo_stack
    redo_stack,             \* HistoryManager.redo_stack
    original_image,         \* ImageEditorApp.original_image
    original_for_sliders,   \* ImageEditorApp.original_for_sliders
    last,                   \* the handler that ran last, its argument and outcome
    pre,                    \* the values held just before that handler ran
    gesture,                \* the slider gesture in progress, if any
    run,                    \* the ImageProcessor calls made on the buffer last set
    scales,                 \* the three tk.Scale widgets: values, commands due
    trail                   \* the image loaded last and the edits made on it

vars == <<image, undo_stack, redo_stack, original_image, original_for_sliders,
          last, pre, gesture, run, scales, trail>>

---------------------------------------------------------------------------
(* Bounds of the model.                                                    *)

\* Largest number of pixels (w * h) of a buffer; a resize beyond it is not taken.
MaxPixels == 3

\* Largest number of snapshots held by undo_stack and redo_stack together.
MaxHist == 2

---------------------------------------------------------------------------
(* Buffers.                                                                *)

None == [id |-> -1, w |-> 0, h |-> 0, px |-> <<>>]

\* The contents of a buffer (its shape and pixel values), without its identity.
Val(b) == [w |-> b.w, h |-> b.h, px |-> b.px]

Vals(stack) == [i \in 1..Len(stack) |-> Val(stack[i])]

MkBuf(i, v) == [id |-> i, w |-> v.w, h |-> v.h, px |-> v.px]

Max2(a, b) == IF a >= b THEN a ELSE b

Abs(x) == IF x < 0 THEN -x ELSE x

\* saturate_cast<uchar>
Saturate(x) == IF x < 0 THEN 0 ELSE IF x > 255 THEN 255 ELSE x

\* cvRound of the non-negative rational n / d: to nearest, ties to even.
RoundHalfEven(n, d) ==
    LET q == n \div d
        r == n % d
    IN  IF 2 * r < d THEN q
        ELSE IF 2 * r > d THEN q + 1
        ELSE IF q % 2 = 0 THEN q ELSE q + 1

---------------------------------------------------------------------------
(* The OpenCV calls ImageProcessor makes, on buffer contents.  Each gives   *)
(* the contents of the new array the call allocates.                       *)

\* cv2.cvtColor(BGR2GRAY) then cv2.cvtColor(GRAY2BGR): fixed-point luminance
\* 0.114 B + 0.587 G + 0.299 R in every channel.
cvtGray(v) ==
    [v EXCEPT !.px =
        [r \in 1..v.h |-> [c \in 1..v.w |->
            LET p == v.px[r][c]
                y == (p[1] * 3735 + p[2] * 19235 + p[3] * 9798 + 16384) \div 32768
            IN  <<y, y, y>>]]]

\* k = max(1, int(k)); if k % 2 == 0: k += 1
\* Fault variant: a kernel size that is not made odd.
BlurKernel_keeps_even(k) == Max2(1, k)

BlurKernel(k) ==
    LET k1 == Max2(1, k)
    IN  IF k1 % 2 = 0 THEN k1 + 1 ELSE k1

\* The Gaussian kernel cv2.GaussianBlur uses for sigma 0 and a small odd size.
KernelWeights(k) ==
    CASE k = 1 -> <<1>>
      [] k = 3 -> <<1, 2, 1>>
      [] k = 5 -> <<1, 4, 6, 4, 1>>
      [] OTHER -> <<2, 7, 14, 18, 14, 7, 2>>

RECURSIVE Reflect101(_, _)
\* BORDER_REFLECT_101 (cv2's default border) of the 0-based index p in 0..n-1.
Reflect101(p, n) ==
    IF n = 1 THEN 0
    ELSE IF p < 0 THEN Reflect101(-p, n)
    ELSE IF p >= n THEN Reflect101(2 * (n - 1) - p, n)
    ELSE p

RECURSIVE SumSeq(_)
SumSeq(s) == IF s = <<>> THEN 0 ELSE Head(s) + SumSeq(Tail(s))

\* cv2.GaussianBlur(image, (k, k), 0) for an odd kernel size k.
GaussianBlur(v, k) ==
    LET wt  == KernelWeights(k)
        rad == (k - 1) \div 2
        den == SumSeq(wt) * SumSeq(wt)
        Tap(r, c, ch, i, j) ==
            wt[i] * wt[j] *
            v.px[Reflect101(r - 1 + i - 1 - rad, v.h) + 1]
                [Reflect101(c - 1 + j - 1 - rad, v.w) + 1][ch]
        Acc(r, c, ch) ==
            SumSeq([n \in 1..(k * k) |->
                      Tap(r, c, ch, ((n - 1) \div k) + 1, ((n - 1) % k) + 1)])
        Out(r, c, ch) == (2 * Acc(r, c, ch) + den) \div (2 * den)
    IN  [v EXCEPT !.px =
            [r \in 1..v.h |-> [c \in 1..v.w |->
                <<Out(r, c, 1), Out(r, c, 2), Out(r, c, 3)>>]]]

\* The shapes cv2.Canny can return for a w x h input: one value in {0, 255}
\* per pixel.  Which of them it returns is left open.
EdgeMaps(w, h) == [(1..h) -> [(1..w) -> {0, 255}]]

\* cv2.Canny(gray, 100, 200) then GRAY2BGR, for the edge map e Canny returned.
Canny(v, e) ==
    [v EXCEPT !.px =
        [r \in 1..v.h |-> [c \in 1..v.w |-> <<e[r][c], e[r][c], e[r][c]>>]]]

\* cv2.convertScaleAbs(image, alpha, beta), alpha given in tenths (the contrast
\* slider's resolution is 0.1): |p * alpha + beta| rounded and saturated.
convertScaleAbs(v, alpha10, beta) ==
    [v EXCEPT !.px =
        [r \in 1..v.h |-> [c \in 1..v.w |->
            [ch \in 1..3 |->
                Saturate(RoundHalfEven(
                    Abs(v.px[r][c][ch] * alpha10 + 10 * beta), 10))]]]]

\* cv2.rotate: ROTATE_90_CLOCKWISE, ROTATE_180, ROTATE_90_COUNTERCLOCKWISE.
cvRotate(v, angle) ==
    CASE angle = 90 ->
            [w |-> v.h, h |-> v.w,
             px |-> [r \in 1..v.w |-> [c \in 1..v.h |-> v.px[v.h - c + 1][r]]]]
      [] angle = 180 ->
            [w |-> v.w, h |-> v.h,
             px |-> [r \in 1..v.h |-> [c \in 1..v.w |->
                        v.px[v.h - r + 1][v.w - c + 1]]]]
      [] OTHER ->
            [w |-> v.h, h |-> v.w,
             px |-> [r \in 1..v.w |-> [c \in 1..v.h |-> v.px[c][v.w - r + 1]]]]

\* cv2.flip(image, flipCode): 1 mirrors left-right, 0 mirrors top-bottom.
cvFlip(v, flipCode) ==
    IF flipCode = 1
    THEN [v EXCEPT !.px =
            [r \in 1..v.h |-> [c \in 1..v.w |-> v.px[r][v.w - c + 1]]]]
    ELSE [v EXCEPT !.px =
            [r \in 1..v.h |-> [c \in 1..v.w |-> v.px[v.h - r + 1][c]]]]

\* int(n * scale) for a scale given in percent (0.5, 1.5 and 2.0 are exact floats).
ScaledDim(n, pct) == (n * pct) \div 100

\* cv2.resize(image, (nw, nh)): bilinear sampling (INTER_LINEAR) at pixel
\* centres, coordinates clamped to the source.
cvResize(v, nw, nh) ==
    LET \* source position of destination index x (0-based): <<index, numerator of
        \* the fraction>> over the denominator 2 * dn
        Src(x, sn, dn) ==
            LET num == (2 * x + 1) * sn - dn
                den == 2 * dn
                s0  == num \div den
            IN  IF num < 0 THEN <<0, 0>>
                ELSE IF s0 >= sn - 1 THEN <<sn - 1, 0>>
                ELSE <<s0, num - s0 * den>>
        Out(r, c, ch) ==
            LET sy == Src(r - 1, v.h, nh)
                sx == Src(c - 1, v.w, nw)
                dy == 2 * nh
                dx == 2 * nw
                y0 == sy[1] + 1
                x0 == sx[1] + 1
                y1 == IF sy[2] = 0 THEN y0 ELSE y0 + 1
                x1 == IF sx[2] = 0 THEN x0 ELSE x0 + 1
                acc == (dy - sy[2]) * ((dx - sx[2]) * v.px[y0][x0][ch]
                                         + sx[2] * v.px[y0][x1][ch])
                         + sy[2] * ((dx - sx[2]) * v.px[y1][x0][ch]
                                         + sx[2] * v.px[y1][x1][ch])
            IN  (2 * acc + dx * dy) \div (2 * dx * dy)
    IN  [w |-> nw, h |-> nh,
         px |-> [r \in 1..nh |-> [c \in 1..nw |->
                    <<Out(r, c, 1), Out(r, c, 2), Out(r, c, 3)>>]]]

---------------------------------------------------------------------------
(* The program state as one record, so that a method is an operator from   *)
(* the state before the call to the state after it.                        *)

App ==
    [image |-> image, original_image |-> original_image,
     original_for_sliders |-> original_for_sliders,
     undo_stack |-> undo_stack, redo_stack |-> redo_stack]

\* Every reference the program holds, in a fixed order.
Slots(s) ==
    <<s.image, s.original_image, s.original_for_sliders>>
        \o s.undo_stack \o s.redo_stack

\* The identity of a newly allocated array: one no reference holds.
Fresh(s) ==
    LET sl  == Slots(s)
        ids == {sl[i].id : i \in 1..Len(sl)} \cup {0}
    IN  1 + (CHOOSE m \in ids : \A x \in ids : x <= m)

\* ndarray.copy(): the same contents in a new array.
copy(b, s) == MkBuf(Fresh(s), Val(b))

\* Identities carry no meaning beyond equality: rename each object to the
\* first slot that holds it, so that states differing only in the names of
\* their objects are one state.
Normalize(s) ==
    LET sl == Slots(s)
        Canon(b) ==
            IF b.id = -1 THEN b
            ELSE [b EXCEPT !.id =
                    CHOOSE i \in 1..Len(sl) :
                        /\ sl[i].id = b.id
                        /\ \A j \in 1..(i - 1) : sl[j].id # b.id]
    IN  [image |-> Canon(s.image),
         original_image |-> Canon(s.original_image),
         original_for_sliders |-> Canon(s.original_for_sliders),
         undo_stack |-> [i \in 1..Len(s.undo_stack) |-> Canon(s.undo_stack[i])],
         redo_stack |-> [i \in 1..Len(s.redo_stack) |-> Canon(s.redo_stack[i])]]

---------------------------------------------------------------------------
(* HistoryManager.                                                         *)

\* Fault variants of the three HistoryManager methods, each a plausible slip
\* of the code below; the properties of the history are shown to tell them
\* from the code.
\* push that forgets redo_stack.clear().
push_keeps_redo(s, img) ==
    IF img # None
    THEN [s EXCEPT !.undo_stack = Append(@, copy(img, s))]
    ELSE s

\* push that clears redo_stack before testing for None.
push_clears_first(s, img) ==
    IF img # None
    THEN [s EXCEPT !.undo_stack = Append(@, copy(img, s)),
                   !.redo_stack = <<>>]
    ELSE [s EXCEPT !.redo_stack = <<>>]

\* undo that forgets to save the current buffer on redo_stack.
undo_forgets_current(s, current) ==
    IF s.undo_stack # <<>>
    THEN IF current = None
         THEN [s |-> s, ret |-> None, raised |-> TRUE]
         ELSE [s |-> [s EXCEPT !.undo_stack = SubSeq(@, 1, Len(@) - 1)],
               ret |-> s.undo_stack[Len(s.undo_stack)],
               raised |-> FALSE]
    ELSE [s |-> s, ret |-> current, raised |-> FALSE]

\* undo that pops the oldest entry (pop(0)) instead of the newest.
undo_pops_oldest(s, current) ==
    IF s.undo_stack # <<>>
    THEN IF current = None
         THEN [s |-> s, ret |-> None, raised |-> TRUE]
         ELSE [s |-> [s EXCEPT
                        !.redo_stack = Append(@, copy(current, s)),
                        !.undo_stack = Tail(@)],
               ret |-> Head(s.undo_stack),
               raised |-> FALSE]
    ELSE [s |-> s, ret |-> current, raised |-> FALSE]

\* undo without the emptiness test: on an empty undo_stack the current buffer
\* is appended to redo_stack and then pop() raises IndexError.
undo_unguarded(s, current) ==
    IF current = None
    THEN [s |-> s, ret |-> None, raised |-> TRUE]
    ELSE IF s.undo_stack = <<>>
    THEN [s |-> [s EXCEPT !.redo_stack = Append(@, copy(current, s))],
          ret |-> None, raised |-> TRUE]
    ELSE [s |-> [s EXCEPT
                   !.redo_stack = Append(@, copy(current, s)),
                   !.undo_stack = SubSeq(@, 1, Len(@) - 1)],
          ret |-> s.undo_stack[Len(s.undo_stack)],
          raised |-> FALSE]

\* redo that forgets to save the current buffer on undo_stack.
redo_forgets_current(s, current) ==
    IF s.redo_stack # <<>>
    THEN IF current = None
         THEN [s |-> s, ret |-> None, raised |-> TRUE]
         ELSE [s |-> [s EXCEPT !.redo_stack = SubSeq(@, 1, Len(@) - 1)],
               ret |-> s.redo_stack[Len(s.redo_stack)],
               raised |-> FALSE]
    ELSE [s |-> s, ret |-> current, raised |-> FALSE]

\* redo that pops the oldest entry (pop(0)) instead of the newest.
redo_pops_oldest(s, current) ==
    IF s.redo_stack # <<>>
    THEN IF current = None
         THEN [s |-> s, ret |-> None, raised |-> TRUE]
         ELSE [s |-> [s EXCEPT
                        !.undo_stack = Append(@, copy(current, s)),
                        !.redo_stack = Tail(@)],
               ret |-> Head(s.redo_stack),
               raised |-> FALSE]
    ELSE [s |-> s, ret |-> current, raised |-> FALSE]

\* Fault variant: a push that keeps at most two snapshots, dropping the
\* oldest.
push_evicts_oldest(s, img) ==
    IF img # None
    THEN [s EXCEPT !.undo_stack =
                       IF Len(@) >= 2 THEN Append(Tail(@), copy(img, s))
                       ELSE Append(@, copy(img, s)),
                   !.redo_stack = <<>>]
    ELSE s

\* HistoryManager.push(image)
push(s, img) ==
    IF img # None
    THEN [s EXCEPT !.undo_stack = Append(@, copy(img, s)),
                   !.redo_stack = <<>>]
    ELSE s

\* HistoryManager.undo(current): the state after the call, the value returned,
\* and whether the call raised (current.copy() on None is an AttributeError,
\* raised before either stack is touched).
undo(s, current) ==
    IF s.undo_stack # <<>>
    THEN IF current = None
         THEN [s |-> s, ret |-> None, raised |-> TRUE]
         ELSE [s |-> [s EXCEPT
                        !.redo_stack = Append(@, copy(current, s)),
                        !.undo_stack = SubSeq(@, 1, Len(@) - 1)],
               ret |-> s.undo_stack[Len(s.undo_stack)],
               raised |-> FALSE]
    ELSE [s |-> s, ret |-> current, raised |-> FALSE]

\* HistoryManager.redo(current)
redo(s, current) ==
    IF s.redo_stack # <<>>
    THEN IF current = None
         THEN [s |-> s, ret |-> None, raised |-> TRUE]
         ELSE [s |-> [s EXCEPT
                        !.undo_stack = Append(@, copy(current, s)),
                        !.redo_stack = SubSeq(@, 1, Len(@) - 1)],
               ret |-> s.redo_stack[Len(s.redo_stack)],
               raised |-> FALSE]
    ELSE [s |-> s, ret |-> current, raised |-> FALSE]

---------------------------------------------------------------------------
(* ImageProcessor: each method rebinds self.image to the array the OpenCV  *)
(* call returns.                                                           *)

set_image(s, img) == [s EXCEPT !.image = img]

get_image(s) == s.image

grayscale(s) == set_image(s, MkBuf(Fresh(s), cvtGray(Val(s.image))))

blur(s, k) ==
    set_image(s, MkBuf(Fresh(s), GaussianBlur(Val(s.image), BlurKernel(k))))

edge_detect(s, e) == set_image(s, MkBuf(Fresh(s), Canny(Val(s.image), e)))

brightness(s, value) ==
    set_image(s, MkBuf(Fresh(s), convertScaleAbs(Val(s.image), 10, value)))

contrast(s, value10) ==
    set_image(s, MkBuf(Fresh(s), convertScaleAbs(Val(s.image), value10, 0)))

\* Fault variant: rotate(90) calling cv2.rotate with ROTATE_180.
rotate_wrong_constant(s, angle) ==
    IF angle \in {90, 180, 270}
    THEN set_image(s, MkBuf(Fresh(s),
            cvRotate(Val(s.image), IF angle = 90 THEN 180 ELSE angle)))
    ELSE s

rotate(s, angle) ==
    IF angle \in {90, 180, 270}
    THEN set_image(s, MkBuf(Fresh(s), cvRotate(Val(s.image), angle)))
    ELSE s

\* Fault variant: a flip that ignores a mode other than "h" and "v".
flip_strict(s, mode) ==
    IF mode = "h"
    THEN set_image(s, MkBuf(Fresh(s), cvFlip(Val(s.image), 1)))
    ELSE IF mode = "v"
    THEN set_image(s, MkBuf(Fresh(s), cvFlip(Val(s.image), 0)))
    ELSE s

flip(s, mode) ==
    IF mode = "h"
    THEN set_image(s, MkBuf(Fresh(s), cvFlip(Val(s.image), 1)))
    ELSE set_image(s, MkBuf(Fresh(s), cvFlip(Val(s.image), 0)))

\* cv2.resize raises cv2.error when the requested size has a zero side.
ResizeRaises(s, pct) ==
    ScaledDim(s.image.w, pct) = 0 \/ ScaledDim(s.image.h, pct) = 0

\* Fault variant: a resize that scales the width for both sides.
resize_square(s, pct) ==
    IF ResizeRaises(s, pct)
    THEN s
    ELSE set_image(s, MkBuf(Fresh(s),
            cvResize(Val(s.image), ScaledDim(s.image.w, pct),
                     ScaledDim(s.image.w, pct))))

resize(s, pct) ==
    IF ResizeRaises(s, pct)
    THEN s
    ELSE set_image(s, MkBuf(Fresh(s),
            cvResize(Val(s.image), ScaledDim(s.image.w, pct),
                     ScaledDim(s.image.h, pct))))

reset(s, original_img) ==
    IF original_img # None THEN set_image(s, copy(original_img, s)) ELSE s

---------------------------------------------------------------------------
(* ImageEditorApp: the handlers.                                           *)

\* The image files the dialog can name, as cv2.imread decodes them; any other
\* path is a file cv2.imread cannot decode, for which it returns None.
ImgA == [w |-> 2, h |-> 1, px |-> << << <<10, 200, 90>>, <<250, 30, 120>> >> >>]

ImgB == [w |-> 1, h |-> 1, px |-> << << <<15, 140, 60>> >> >>]

Paths == {"a.png", "bad.png"}

imread(s, path) ==
    CASE path = "a.png" -> MkBuf(Fresh(s), ImgA)
      [] path = "b.png" -> MkBuf(Fresh(s), ImgB)
      [] OTHER -> None

check_image(s) == get_image(s) # None

\* update_display only reads the image; it changes nothing the model holds.
update_display(s) == s

\* open_image raises (img.copy() on None) after set_image when the file
\* cannot be decoded.
OpenRaises(s, path) == path # "" /\ imread(s, path) = None

\* Fault variant: a load that keeps the old history and preview baseline.
open_image_keeps_history(s, path) ==
    IF path = "" THEN s
    ELSE LET img == imread(s, path)
             s1  == set_image(s, img)
         IN  IF img = None THEN s1
             ELSE update_display([s1 EXCEPT !.original_image = copy(img, s1)])

\* Fault variant: a load that keeps the array read as original_image, without
\* copying it.
open_image_no_copy(s, path) ==
    IF path = "" THEN s
    ELSE LET img == imread(s, path)
             s1  == set_image(s, img)
         IN  IF img = None THEN s1
             ELSE update_display(
                    [s1 EXCEPT !.original_image = img,
                               !.original_for_sliders = None,
                               !.undo_stack = <<>>,
                               !.redo_stack = <<>>])

open_image(s, path) ==
    IF path = "" THEN s
    ELSE LET img == imread(s, path)
             s1  == set_image(s, img)
         IN  IF img = None THEN s1
             ELSE update_display(
                    [s1 EXCEPT !.original_image = copy(img, s1),
                               !.original_for_sliders = None,
                               !.undo_stack = <<>>,
                               !.redo_stack = <<>>])

\* Fault variant: an undo that leaves the preview baseline armed.
app_undo_keeps_baseline(s) ==
    IF check_image(s)
    THEN LET r == undo(s, get_image(s))
         IN  update_display(set_image(r.s, r.ret))
    ELSE s

\* Fault variant: an undo that does not test check_image first.
app_undo_unchecked(s) ==
    LET s1 == [s EXCEPT !.original_for_sliders = None]
        r  == undo(s1, get_image(s1))
    IN  IF r.raised THEN s1 ELSE update_display(set_image(r.s, r.ret))

app_undo(s) ==
    IF check_image(s)
    THEN LET s1 == [s EXCEPT !.original_for_sliders = None]
             r  == undo(s1, get_image(s1))
         IN  update_display(set_image(r.s, r.ret))
    ELSE s

\* Fault variant: a redo that leaves the preview baseline armed.
app_redo_keeps_baseline(s) ==
    IF check_image(s)
    THEN LET r == redo(s, get_image(s))
         IN  update_display(set_image(r.s, r.ret))
    ELSE s

app_redo(s) ==
    IF check_image(s)
    THEN LET s1 == [s EXCEPT !.original_for_sliders = None]
             r  == redo(s1, get_image(s1))
         IN  update_display(set_image(r.s, r.ret))
    ELSE s

\* The callable apply is given: a processor method and its argument.
Call(s, func, arg) ==
    CASE func = "grayscale" -> grayscale(s)
      [] func = "edge_detect" -> edge_detect(s, arg)
      [] func = "rotate" -> rotate(s, arg)
      [] func = "flip" -> flip(s, arg)
      [] OTHER -> resize(s, arg)

CallRaises(s, func, arg) == func = "resize" /\ ResizeRaises(s, arg)

\* Fault variant: apply that saves the buffer after the edit, not before.
apply_pushes_after_edit(s, func, arg) ==
    IF ~check_image(s) THEN s
    ELSE LET s1 == [s EXCEPT !.original_for_sliders = None]
         IN  IF CallRaises(s1, func, arg) THEN s1
             ELSE LET s2 == Call(s1, func, arg)
                  IN  update_display(push(s2, get_image(s2)))

apply(s, func, arg) ==
    IF ~check_image(s) THEN s
    ELSE LET s1 == [s EXCEPT !.original_for_sliders = None]
             s2 == push(s1, get_image(s1))
         IN  IF CallRaises(s2, func, arg) THEN s2
             ELSE update_display(Call(s2, func, arg))

\* "On first slider movement, save the original state": shared by the three
\* slider handlers.
ArmBaseline(s) ==
    IF s.original_for_sliders = None
    THEN LET s0 == [s EXCEPT !.original_for_sliders = copy(get_image(s), s)]
         IN  push(s0, s0.original_for_sliders)
    ELSE s

\* Fault variant: a blur preview computed from the current frame, not from
\* the baseline.
do_blur_chained(s, v) ==
    IF ~check_image(s) THEN s
    ELSE update_display(blur(ArmBaseline(s), v))

do_blur(s, v) ==
    IF ~check_image(s) THEN s
    ELSE LET s1 == ArmBaseline(s)
             s2 == set_image(s1, copy(s1.original_for_sliders, s1))
         IN  update_display(blur(s2, v))

\* Fault variant: a brightness preview computed from the current frame, not
\* from the baseline.
do_brightness_chained(s, v) ==
    IF ~check_image(s) THEN s
    ELSE update_display(brightness(ArmBaseline(s), v))

do_brightness(s, v) ==
    IF ~check_image(s) THEN s
    ELSE LET s1 == ArmBaseline(s)
             s2 == set_image(s1, copy(s1.original_for_sliders, s1))
         IN  update_display(brightness(s2, v))

\* Fault variant: a contrast preview that pushes the frame on display at every
\* event.
do_contrast_pushes_frames(s, v10) ==
    IF ~check_image(s) THEN s
    ELSE LET s0 == push(s, get_image(s))
             s1 == IF s0.original_for_sliders = None
                   THEN [s0 EXCEPT !.original_for_sliders =
                                       copy(get_image(s0), s0)]
                   ELSE s0
             s2 == set_image(s1, copy(s1.original_for_sliders, s1))
         IN  update_display(contrast(s2, v10))

do_contrast(s, v10) ==
    IF ~check_image(s) THEN s
    ELSE LET s1 == ArmBaseline(s)
             s2 == set_image(s1, copy(s1.original_for_sliders, s1))
         IN  update_display(contrast(s2, v10))

reset_image(s) ==
    IF s.original_image # None
    THEN LET s1 == push(s, get_image(s))
             s2 == set_image(s1, copy(s1.original_image, s1))
         IN  update_display([s2 EXCEPT !.original_for_sliders = None])
    ELSE s

---------------------------------------------------------------------------
(* The editor as a state machine: one action per handler the user          *)
(* interface binds.  last, pre and gesture record what the properties      *)
(* use: the handler that ran, the buffer (and, for an undo or redo, the    *)
(* stacks) it found, and the slider gesture in progress.                   *)

\* The values the sliders deliver in the model (blur 1..31, brightness
\* -100..100, contrast 1.0..5.0 given in tenths), a few of each.
BlurValues == {2}

BrightnessValues == {-20}

ContrastValues == {15}

Angles == {90, 180, 270}

FlipModes == {"h", "v"}

Scales == {50, 150}

\* gesture: whether a slider gesture is in progress, whether its last event was
\* its first and then the handler it followed, whether the preview baseline
\* was unset when it started, and the buffer (I) and undo_stack (undo0) it
\* started from.
NoGesture ==
    [active |-> FALSE, first |-> FALSE, after |-> "", unset |-> FALSE,
     I |-> Val(None), undo0 |-> <<>>]

\* run: the buffer last handed to ImageProcessor.set_image by a caller of the
\* class alone, the method called on it since, the arguments of the calls and
\* whether one of them raised.
NoRun == [op |-> "", args |-> <<>>, start |-> Val(None), raised |-> FALSE]

\* scales: the value each tk.Scale holds (contrast in tenths) and the sliders
\* whose command Tk has still to call, in the order their values were set.
ScaleDefaults == [blur |-> 1, brightness |-> 0, contrast |-> 10, due |-> <<>>]

\* trail: the buffer the last successful load gave and, while the requests
\* made since are being followed (ok: only discrete edits and then only undos
\* since the load), the buffer each of them found and the number of undos
\* requested after them.  Where the sliders are modelled, bufs holds the
\* buffer the Reset request just made found, until the next request.
NoTrail == [I |-> Val(None), ok |-> FALSE, bufs |-> <<>>, undos |-> 0]

\* A snapshot push takes fits the bound on the history.
CanPush == Len(undo_stack) < MaxHist

\* The buffer a resize by pct percent would give fits the bound on buffers.
Fits(pct) ==
    ScaledDim(image.w, pct) * ScaledDim(image.h, pct) <= MaxPixels

SetApp(t) ==
    LET n == Normalize(t)
    IN  /\ image' = n.image
        /\ original_image' = n.original_image
        /\ original_for_sliders' = n.original_for_sliders
        /\ undo_stack' = n.undo_stack
        /\ redo_stack' = n.redo_stack

\* What the properties need of the handler that ran: its name, the slider value
\* (0 for the other handlers) and the path (open_image) it was given, whether
\* it passed its guard and ran to its end, whether it raised, and whether the
\* HistoryManager call it made returned the very object it was passed.
Last(op, n, path, done, raised) ==
    [op |-> op, n |-> n, path |-> path, done |-> done, raised |-> raised,
     same |-> FALSE, after |-> ""]

\* An undo or redo also records what it followed: a discrete edit or a reset
\* that ran to its end, a slider gesture, the undo of a gesture, or anything else.
After ==
    CASE last.op \in {"apply", "reset_image"} /\ last.done -> last.op
      [] gesture.active -> "gesture"
      [] last.op = "undo" /\ last.done /\ last.after = "gesture" -> "gesture-undo"
      [] OTHER -> ""

LastAfter(op, done, same) ==
    [op |-> op, n |-> 0, path |-> "", done |-> done, raised |-> FALSE,
     same |-> same, after |-> After]

\* pre: the buffer the handler found; for open_image, undo and redo also the
\* stacks, and for open_image whether the preview baseline was armed.
PreImage ==
    [image |-> Val(image), undo_stack |-> <<>>, redo_stack |-> <<>>,
     armed |-> FALSE]

PreStacks ==
    [image |-> Val(image), undo_stack |-> Vals(undo_stack),
     redo_stack |-> Vals(redo_stack), armed |-> FALSE]

PreAll ==
    [image |-> Val(image), undo_stack |-> Vals(undo_stack),
     redo_stack |-> Vals(redo_stack), armed |-> original_for_sliders # None]

\* A slider event that passes check_image starts a gesture unless one is in
\* progress; every other handler ends the gesture.
SliderGesture ==
    IF ~check_image(App) THEN gesture
    ELSE IF gesture.active
    THEN [gesture EXCEPT !.first = FALSE, !.after = ""]
    ELSE [active |-> TRUE, first |-> TRUE, after |-> last.op,
          unset |-> original_for_sliders = None,
          I |-> Val(image), undo0 |-> Vals(undo_stack)]

Init ==
    /\ image = None
    /\ undo_stack = <<>>
    /\ redo_stack = <<>>
    /\ original_image = None
    /\ original_for_sliders = None
    /\ last = [op |-> "init", n |-> 0, path |-> "", done |-> TRUE,
               raised |-> FALSE, same |-> FALSE, after |-> ""]
    /\ pre = [image |-> Val(None), undo_stack |-> <<>>, redo_stack |-> <<>>,
              armed |-> FALSE]
    /\ gesture = NoGesture
    /\ run = NoRun
    /\ scales = ScaleDefaults
    /\ trail = NoTrail

OpenImage(path) ==
    /\ SetApp(open_image(App, path))
    /\ last' = Last("open_image", 0, path,
                    path # "" /\ ~OpenRaises(App, path), OpenRaises(App, path))
    /\ pre' = PreAll
    /\ UNCHANGED <<scales, trail>>
    /\ gesture' = NoGesture
    /\ run' = run

Undo ==
    /\ SetApp(app_undo(App))
    /\ last' = LastAfter("undo", check_image(App),
                         check_image(App) /\ undo(App, image).ret.id = image.id)
    /\ pre' = PreStacks
    /\ UNCHANGED <<scales, trail>>
    /\ gesture' = NoGesture
    /\ run' = run

Redo ==
    /\ SetApp(app_redo(App))
    /\ last' = LastAfter("redo", check_image(App),
                         check_image(App) /\ redo(App, image).ret.id = image.id)
    /\ pre' = PreStacks
    /\ UNCHANGED <<scales, trail>>
    /\ gesture' = NoGesture
    /\ run' = run

Apply(func, arg) ==
    /\ check_image(App) => CanPush
    /\ SetApp(apply(App, func, arg))
    /\ last' = Last("apply", 0, "",
                    check_image(App) /\ ~CallRaises(App, func, arg),
                    check_image(App) /\ CallRaises(App, func, arg))
    /\ pre' = PreImage
    /\ UNCHANGED <<scales, trail>>
    /\ gesture' = NoGesture
    /\ run' = run

DoGrayscale == Apply("grayscale", 0)

DoEdge == \E e \in EdgeMaps(image.w, image.h) : Apply("edge_detect", e)

DoRotate(a) == Apply("rotate", a)

DoFlip(m) == Apply("flip", m)

DoResize(pct) == Fits(pct) /\ Apply("resize", pct)

SliderGuard == (check_image(App) /\ original_for_sliders = None) => CanPush

DoBlur(v) ==
    /\ SliderGuard
    /\ SetApp(do_blur(App, v))
    /\ last' = Last("do_blur", v, "", check_image(App), FALSE)
    /\ pre' = PreImage
    /\ UNCHANGED <<scales, trail>>
    /\ gesture' = SliderGesture
    /\ run' = run

DoBrightness(v) ==
    /\ SliderGuard
    /\ SetApp(do_brightness(App, v))
    /\ last' = Last("do_brightness", v, "", check_image(App), FALSE)
    /\ pre' = PreImage
    /\ UNCHANGED <<scales, trail>>
    /\ gesture' = SliderGesture
    /\ run' = run

DoContrast(v) ==
    /\ SliderGuard
    /\ SetApp(do_contrast(App, v))
    /\ last' = Last("do_contrast", v, "", check_image(App), FALSE)
    /\ pre' = PreImage
    /\ UNCHANGED <<scales, trail>>
    /\ gesture' = SliderGesture
    /\ run' = run

ResetImage ==
    /\ (original_image # None /\ image # None) => CanPush
    /\ SetApp(reset_image(App))
    /\ last' = Last("reset_image", 0, "", original_image # None, FALSE)
    /\ pre' = PreImage
    /\ UNCHANGED <<scales, trail>>
    /\ gesture' = NoGesture
    /\ run' = run

Next ==
    \/ \E path \in Paths : OpenImage(path)
    \/ Undo
    \/ Redo
    \/ DoGrayscale
    \/ DoEdge
    \/ \E a \in Angles : DoRotate(a)
    \/ \E m \in FlipModes : DoFlip(m)
    \/ \E pct \in Scales : DoResize(pct)
    \/ \E v \in BlurValues : DoBlur(v)
    \/ \E v \in BrightnessValues : DoBrightness(v)
    \/ \E v \in ContrastValues : DoContrast(v)
    \/ ResetImage

Spec == Init /\ [][Next]_vars

---------------------------------------------------------------------------
(* HistoryManager on its own: a caller that holds any buffer, or none, as  *)
(* its current one (image) and calls push, undo and redo with it in any    *)
(* order.  undo and redo hand the caller the buffer they return.           *)

\* The harness lets undo_stack grow to MaxHistH entries.
MaxHistH == 3

CanPushH == Len(undo_stack) < MaxHistH

\* The contents the caller's buffers are drawn from.
CallerVals == {ImgA, ImgB}

\* The caller's current buffer after a call that returned r.
Returned(r) == IF r.raised THEN r.s ELSE set_image(r.s, r.ret)

\* The caller takes a new array with contents v as its current buffer.
H_Set(v) ==
    /\ SetApp(set_image(App, MkBuf(Fresh(App), v)))
    /\ last' = Last("set", 0, "", TRUE, FALSE)
    /\ pre' = PreStacks
    /\ UNCHANGED <<scales, trail>>
    /\ gesture' = NoGesture
    /\ run' = run

\* The caller drops its current buffer.
H_Clear ==
    /\ SetApp(set_image(App, None))
    /\ last' = Last("clear", 0, "", TRUE, FALSE)
    /\ pre' = PreStacks
    /\ UNCHANGED <<scales, trail>>
    /\ gesture' = NoGesture
    /\ run' = run

H_Push ==
    /\ image # None => CanPushH
    /\ SetApp(push(App, image))
    /\ last' = Last("HistoryManager.push", 0, "", image # None, FALSE)
    /\ pre' = PreStacks
    /\ UNCHANGED <<scales, trail>>
    /\ gesture' = NoGesture
    /\ run' = run

H_Undo ==
    /\ SetApp(Returned(undo(App, image)))
    /\ last' = [op |-> "HistoryManager.undo", n |-> 0, path |-> "",
                done |-> undo_stack # <<>> /\ ~undo(App, image).raised,
                raised |-> undo(App, image).raised,
                same |-> undo(App, image).ret.id = image.id,
                after |-> IF last.done THEN last.op ELSE ""]
    /\ pre' = PreStacks
    /\ UNCHANGED <<scales, trail>>
    /\ gesture' = NoGesture
    /\ run' = run

H_Redo ==
    /\ SetApp(Returned(redo(App, image)))
    /\ last' = [op |-> "HistoryManager.redo", n |-> 0, path |-> "",
                done |-> redo_stack # <<>> /\ ~redo(App, image).raised,
                raised |-> redo(App, image).raised,
                same |-> redo(App, image).ret.id = image.id,
                after |-> IF last.done THEN last.op ELSE ""]
    /\ pre' = PreStacks
    /\ UNCHANGED <<scales, trail>>
    /\ gesture' = NoGesture
    /\ run' = run

NextH ==
    \/ \E v \in CallerVals : H_Set(v)
    \/ H_Clear
    \/ H_Push
    \/ H_Undo
    \/ H_Redo

SpecH == Init /\ [][NextH]_vars

---------------------------------------------------------------------------
(* ImageProcessor on its own: a caller hands it a buffer (set_image) and   *)
(* calls one of its methods on it, one or more times in a row.             *)

\* The buffers handed in have sides 1..MaxSide.
MaxSide == 4

\* At most MaxCalls calls are made on one buffer.
MaxCalls == 4

\* A w x h buffer whose pixels all differ, with channel values spread over
\* 0..255.
Grid(w, h) ==
    [w |-> w, h |-> h,
     px |-> [r \in 1..h |-> [c \in 1..w |->
                LET i == (r - 1) * w + (c - 1)
                IN  <<(5 + 40 * i) % 256, 250 - 30 * (i % 9), 128 + i>>]]]

BrightnessArgs == {-100, -20, 0, 30, 100}

BlurArgs == (-2)..7

FlipArgs == {"h", "v", "x"}

ScaleArgs == {50, 150, 200}

\* The methods a caller may call again on the result of the same method.
ChainOps == {"rotate", "flip", "resize"}

ProcCall(s, op, arg) ==
    CASE op = "brightness" -> brightness(s, arg)
      [] op = "blur" -> blur(s, arg)
      [] OTHER -> Call(s, op, arg)

\* The result of a resize stays within twice the largest side handed in.
FitsT(pct) ==
    /\ ScaledDim(image.w, pct) <= 2 * MaxSide
    /\ ScaledDim(image.h, pct) <= 2 * MaxSide

P_SetImage(w, h) ==
    /\ SetApp(set_image(App, MkBuf(Fresh(App), Grid(w, h))))
    /\ last' = Last("set_image", 0, "", TRUE, FALSE)
    /\ pre' = [image |-> Val(None), undo_stack |-> <<>>, redo_stack |-> <<>>,
               armed |-> FALSE]
    /\ UNCHANGED <<scales, trail>>
    /\ gesture' = NoGesture
    /\ run' = [op |-> "set_image", args |-> <<>>, start |-> Grid(w, h),
               raised |-> FALSE]

P_Call(op, arg) ==
    /\ image # None
    /\ Len(run.args) < MaxCalls
    /\ run.args = <<>> \/ (run.op = op /\ op \in ChainOps)
    /\ SetApp(IF CallRaises(App, op, arg) THEN App ELSE ProcCall(App, op, arg))
    /\ last' = Last(op, arg, "", ~CallRaises(App, op, arg),
                    CallRaises(App, op, arg))
    /\ pre' = PreImage
    /\ UNCHANGED <<scales, trail>>
    /\ gesture' = NoGesture
    /\ run' = [run EXCEPT !.op = op, !.args = Append(@, arg),
                          !.raised = @ \/ CallRaises(App, op, arg)]

P_Brightness(v) == P_Call("brightness", v)

P_Blur(k) == P_Call("blur", k)

P_Rotate(a) == P_Call("rotate", a)

P_Flip(m) == P_Call("flip", m)

P_Resize(pct) == FitsT(pct) /\ P_Call("resize", pct)

NextT ==
    \/ \E w, h \in 1..MaxSide : P_SetImage(w, h)
    \/ \E v \in BrightnessArgs : P_Brightness(v)
    \/ \E k \in BlurArgs : P_Blur(k)
    \/ \E a \in Angles : P_Rotate(a)
    \/ \E m \in FlipArgs : P_Flip(m)
    \/ \E pct \in ScaleArgs : P_Resize(pct)

SpecT == Init /\ [][NextT]_vars

---------------------------------------------------------------------------
(* The editor used for one thing only: an image is loaded, discrete edits  *)
(* are requested on it one after the other, then undos.  The sliders stay  *)
(* where they are, so the Scale.set calls of open_image change no value    *)
(* and no slider command is called.  trail records the buffer each edit    *)
(* request found.                                                          *)

MaxDepth == 3

CanPushD == Len(undo_stack) < MaxDepth

DepthEdits ==
    {<<"grayscale", 0>>, <<"rotate", 90>>, <<"rotate", 180>>, <<"flip", "h">>,
     <<"resize", 50>>, <<"resize", 150>>}

D_Load(path) ==
    /\ SetApp(open_image(App, path))
    /\ last' = Last("open_image", 0, path,
                    path # "" /\ ~OpenRaises(App, path), OpenRaises(App, path))
    /\ pre' = PreAll
    /\ trail' = IF path # "" /\ ~OpenRaises(App, path)
                THEN [I |-> Val(image'), ok |-> TRUE, bufs |-> <<>>,
                      undos |-> 0]
                ELSE [trail EXCEPT !.ok = FALSE]
    /\ UNCHANGED <<gesture, run, scales>>

D_Edit(func, arg) ==
    /\ trail.ok /\ trail.undos = 0
    /\ CanPushD
    /\ func = "resize" => Fits(arg)
    /\ SetApp(apply(App, func, arg))
    /\ last' = Last("apply", 0, "",
                    check_image(App) /\ ~CallRaises(App, func, arg),
                    check_image(App) /\ CallRaises(App, func, arg))
    /\ pre' = PreImage
    /\ trail' = [trail EXCEPT !.bufs = Append(@, Val(image))]
    /\ UNCHANGED <<gesture, run, scales>>

D_Undo ==
    /\ trail.ok /\ trail.undos < Len(trail.bufs)
    /\ SetApp(app_undo(App))
    /\ last' = LastAfter("undo", check_image(App),
                         check_image(App) /\ undo(App, image).ret.id = image.id)
    /\ pre' = PreStacks
    /\ trail' = [trail EXCEPT !.undos = @ + 1]
    /\ UNCHANGED <<gesture, run, scales>>

NextD ==
    \/ \E path \in {"a.png", "b.png", "bad.png"} : D_Load(path)
    \/ \E e \in DepthEdits : D_Edit(e[1], e[2])
    \/ D_Undo

SpecD == Init /\ [][NextD]_vars

---------------------------------------------------------------------------
(* The editor with its three tk.Scale widgets.  Scale.set(v) on a slider   *)
(* whose value is not v changes the value and marks the slider's command   *)
(* to be called; Tk calls it, with the new value, when it next redraws the *)
(* slider, which is once the handler that called set has returned and      *)
(* before the next request of the user is served.  Scale.set(v) on a       *)
(* slider that already holds v does nothing.  pre and gesture are not kept *)
(* here; trail holds what the properties need.                             *)

MaxHistW == 4

SliderNames == {"blur", "brightness", "contrast"}

\* The values the user drags each slider to (contrast in tenths).
SliderValues ==
    [blur |-> {1, 2}, brightness |-> {0, -20}, contrast |-> {10, 15}]

ScaleSet(sc, name, v) ==
    IF sc[name] = v THEN sc
    ELSE [sc EXCEPT ![name] = v, !.due = Append(@, name)]

\* blur_slider.set(1); brightness_slider.set(0); contrast_slider.set(1.0)
ResetScales(sc) ==
    ScaleSet(ScaleSet(ScaleSet(sc, "blur", 1), "brightness", 0),
             "contrast", 10)

\* The command each slider is bound to.
ScaleCommand(s, name, v) ==
    CASE name = "blur" -> do_blur(s, v)
      [] name = "brightness" -> do_brightness(s, v)
      [] OTHER -> do_contrast(s, v)

CommandName(name) ==
    CASE name = "blur" -> "do_blur"
      [] name = "brightness" -> "do_brightness"
      [] OTHER -> "do_contrast"

\* The user's requests are served when no slider command is due.
Idle == scales.due = <<>>

\* Room on undo_stack, within the bound, for k more snapshots.
RoomW(k) == Len(undo_stack) + k <= MaxHistW

W_Open(path) ==
    /\ Idle
    /\ SetApp(open_image(App, path))
    /\ scales' = IF path # "" /\ ~OpenRaises(App, path)
                 THEN ResetScales(scales) ELSE scales
    /\ last' = Last("open_image", 0, path,
                    path # "" /\ ~OpenRaises(App, path), OpenRaises(App, path))
    /\ trail' = IF path # "" /\ ~OpenRaises(App, path)
                THEN [NoTrail EXCEPT !.I = Val(image')]
                ELSE [trail EXCEPT !.bufs = <<>>]
    /\ UNCHANGED <<pre, gesture, run>>

W_Edit(func, arg) ==
    /\ Idle
    /\ check_image(App) => RoomW(3)
    /\ SetApp(apply(App, func, arg))
    /\ last' = Last("apply", 0, "",
                    check_image(App) /\ ~CallRaises(App, func, arg),
                    check_image(App) /\ CallRaises(App, func, arg))
    /\ trail' = [trail EXCEPT !.bufs = <<>>]
    /\ UNCHANGED <<pre, gesture, run, scales>>

W_Undo ==
    /\ Idle
    /\ SetApp(app_undo(App))
    /\ last' = Last("undo", 0, "", check_image(App), FALSE)
    /\ trail' = [trail EXCEPT !.bufs = <<>>]
    /\ UNCHANGED <<pre, gesture, run, scales>>

W_Redo ==
    /\ Idle
    /\ SetApp(app_redo(App))
    /\ last' = Last("redo", 0, "", check_image(App), FALSE)
    /\ trail' = [trail EXCEPT !.bufs = <<>>]
    /\ UNCHANGED <<pre, gesture, run, scales>>

\* The user drags a slider to a new value: Tk calls its command with it.
W_Slide(name, v) ==
    /\ Idle
    /\ v # scales[name]
    /\ (check_image(App) /\ original_for_sliders = None) => RoomW(3)
    /\ SetApp(ScaleCommand(App, name, v))
    /\ scales' = [scales EXCEPT ![name] = v]
    /\ last' = Last(CommandName(name), v, "", check_image(App), FALSE)
    /\ trail' = [trail EXCEPT !.bufs = <<>>]
    /\ UNCHANGED <<pre, gesture, run>>

\* An edit or a gesture leaves room on undo_stack for the snapshot of a Reset
\* and the one the first slider command due after it takes.
W_Reset ==
    /\ Idle
    /\ original_image # None => RoomW(IF image # None THEN 2 ELSE 1)
    /\ SetApp(reset_image(App))
    /\ scales' = IF original_image # None THEN ResetScales(scales)
                 ELSE scales
    /\ last' = Last("reset_image", 0, "", original_image # None, FALSE)
    /\ trail' = [trail EXCEPT
                   !.bufs = IF original_image # None /\ image # None
                            THEN <<Val(image)>> ELSE <<>>]
    /\ UNCHANGED <<pre, gesture, run>>

\* Tk redraws the slider whose command is due first and calls the command
\* with the value the slider holds.
W_Redraw ==
    /\ ~Idle
    /\ LET name == Head(scales.due)
       IN  /\ SetApp(ScaleCommand(App, name, scales[name]))
           /\ last' = Last(CommandName(name), scales[name], "",
                           check_image(App), FALSE)
    /\ scales' = [scales EXCEPT !.due = Tail(@)]
    /\ UNCHANGED <<pre, gesture, run, trail>>

NextW ==
    \/ \E path \in Paths : W_Open(path)
    \/ W_Edit("grayscale", 0)
    \/ W_Undo
    \/ W_Redo
    \/ \E name \in SliderNames : \E v \in SliderValues[name] : W_Slide(name, v)
    \/ W_Reset
    \/ W_Redraw

SpecW == Init /\ [][NextW]_vars

---------------------------------------------------------------------------
(* Properties of HistoryManager, checked under SpecH.  A step is named by  *)
(* the handler it records in last'; the unprimed variables are the state   *)
(* the call found.                                                         *)

Top(stack) == stack[Len(stack)]

Front(stack) == SubSeq(stack, 1, Len(stack) - 1)

\* C1: with a present current buffer, undo on a non-empty undo_stack followed
\* at once by redo on the buffer undo returned gives back a buffer equal to
\* the original current one and leaves undo_stack and redo_stack with the
\* contents they had before the undo; and the same for redo on a non-empty
\* redo_stack followed at once by undo.
UndoRedoRoundTrip ==
    [][/\ (/\ last.op = "HistoryManager.undo"
           /\ last.done
           /\ last'.op = "HistoryManager.redo")
          => /\ ~last'.raised
             /\ Val(image') = pre.image
             /\ Vals(undo_stack') = pre.undo_stack
             /\ Vals(redo_stack') = pre.redo_stack
       /\ (/\ last.op = "HistoryManager.redo"
           /\ last.done
           /\ last'.op = "HistoryManager.undo")
          => /\ ~last'.raised
             /\ Val(image') = pre.image
             /\ Vals(undo_stack') = pre.undo_stack
             /\ Vals(redo_stack') = pre.redo_stack]_vars

\* An undo that popped an entry different from the current buffer, then the
\* redo that brought the buffer back, with an older entry below.
UndoRedoRoundTripReached ==
    /\ last.op = "HistoryManager.redo"
    /\ last.done
    /\ last.after = "HistoryManager.undo"
    /\ Len(undo_stack) = 2
    /\ Val(image) # Val(Top(undo_stack))

\* C4: push with a present buffer puts a copy of it (equal contents, another
\* object) on top of undo_stack, keeps the earlier entries in their order,
\* and leaves redo_stack empty.
PushAppendsCopyAndClearsRedo ==
    [][(last'.op = "HistoryManager.push" /\ image # None)
       => /\ Len(undo_stack') = Len(undo_stack) + 1
          /\ Vals(Front(undo_stack')) = Vals(undo_stack)
          /\ Val(Top(undo_stack')) = Val(image)
          /\ Top(undo_stack').id # image'.id
          /\ \A i \in 1..Len(undo_stack) :
                Top(undo_stack').id # undo_stack'[i].id
          /\ redo_stack' = <<>>]_vars

\* A push onto a non-empty undo_stack that found redo_stack non-empty.
PushAppendsCopyAndClearsRedoReached ==
    /\ last.op = "HistoryManager.push"
    /\ last.done
    /\ pre.redo_stack # <<>>
    /\ Len(undo_stack) = 2
    /\ Val(undo_stack[1]) # Val(undo_stack[2])

\* C5: undo with a non-empty undo_stack (and a present current buffer)
\* returns the top entry of undo_stack, removes that entry and no other, and
\* puts a copy of the current buffer on top of redo_stack, above the entries
\* redo_stack had.
UndoPopsTopSavesCurrent ==
    [][(last'.op = "HistoryManager.undo" /\ undo_stack # <<>> /\ image # None)
       => /\ ~last'.raised
          /\ Val(image') = Val(Top(undo_stack))
          /\ Vals(undo_stack') = Vals(Front(undo_stack))
          /\ Len(redo_stack') = Len(redo_stack) + 1
          /\ Vals(Front(redo_stack')) = Vals(redo_stack)
          /\ Val(Top(redo_stack')) = Val(image)
          /\ Top(redo_stack').id # image'.id]_vars

\* An undo that found two different entries on undo_stack and one on
\* redo_stack.
UndoPopsTopSavesCurrentReached ==
    /\ last.op = "HistoryManager.undo"
    /\ last.done
    /\ Len(pre.undo_stack) = 2
    /\ pre.undo_stack[1] # pre.undo_stack[2]
    /\ Len(redo_stack) = 2
    /\ undo_stack # <<>>

\* C6: redo with a non-empty redo_stack (and a present current buffer)
\* returns the top entry of redo_stack, removes that entry and no other, and
\* puts a copy of the current buffer on top of undo_stack, above the entries
\* undo_stack had.
RedoPopsTopSavesCurrent ==
    [][(last'.op = "HistoryManager.redo" /\ redo_stack # <<>> /\ image # None)
       => /\ ~last'.raised
          /\ Val(image') = Val(Top(redo_stack))
          /\ Vals(redo_stack') = Vals(Front(redo_stack))
          /\ Len(undo_stack') = Len(undo_stack) + 1
          /\ Vals(Front(undo_stack')) = Vals(undo_stack)
          /\ Val(Top(undo_stack')) = Val(image)
          /\ Top(undo_stack').id # image'.id]_vars

\* A redo that found two different entries on redo_stack and one on
\* undo_stack.
RedoPopsTopSavesCurrentReached ==
    /\ last.op = "HistoryManager.redo"
    /\ last.done
    /\ Len(pre.redo_stack) = 2
    /\ pre.redo_stack[1] # pre.redo_stack[2]
    /\ Len(undo_stack) = 2
    /\ redo_stack # <<>>

\* C7: undo on an empty undo_stack and redo on an empty redo_stack return the
\* very object they were passed, raise nothing, and leave both stacks as
\* they were.
EmptyStackIsNoOp ==
    [][/\ (last'.op = "HistoryManager.undo" /\ undo_stack = <<>>)
          => /\ ~last'.raised
             /\ last'.same
             /\ Val(image') = Val(image)
             /\ Vals(undo_stack') = Vals(undo_stack)
             /\ Vals(redo_stack') = Vals(redo_stack)
       /\ (last'.op = "HistoryManager.redo" /\ redo_stack = <<>>)
          => /\ ~last'.raised
             /\ last'.same
             /\ Val(image') = Val(image)
             /\ Vals(undo_stack') = Vals(undo_stack)
             /\ Vals(redo_stack') = Vals(redo_stack)]_vars

\* An undo with a present buffer that found undo_stack empty and redo_stack
\* not.
EmptyStackIsNoOpReached ==
    /\ last.op = "HistoryManager.undo"
    /\ ~last.done
    /\ last.same
    /\ image # None
    /\ pre.undo_stack = <<>>
    /\ Len(redo_stack) = 2

\* C8: push with an absent buffer (None) leaves undo_stack and redo_stack as
\* they were; a non-empty redo_stack stays non-empty.
PushNoneIsNoOp ==
    [][(last'.op = "HistoryManager.push" /\ image = None)
       => /\ Vals(undo_stack') = Vals(undo_stack)
          /\ Vals(redo_stack') = Vals(redo_stack)]_vars

\* A push of None that found both stacks non-empty.
PushNoneIsNoOpReached ==
    /\ last.op = "HistoryManager.push"
    /\ ~last.done
    /\ image = None
    /\ undo_stack # <<>>
    /\ redo_stack # <<>>

---------------------------------------------------------------------------
(* Properties of the editor, checked under Spec.                           *)

SliderOps == {"do_blur", "do_brightness", "do_contrast"}

NonPreviewOps == {"apply", "undo", "redo", "open_image"}

\* What the slider handler op computes from buffer contents v with value n.
SliderTransform(op, v, n) ==
    CASE op = "do_blur" -> GaussianBlur(v, BlurKernel(n))
      [] op = "do_brightness" -> convertScaleAbs(v, 10, n)
      [] OTHER -> convertScaleAbs(v, n, 0)

\* C2: when a discrete edit (grayscale, edge detect, rotate, flip, resize)
\* has run through apply on a loaded buffer B, an Undo request that follows
\* it at once makes the current buffer equal to B, in width, height and
\* every pixel.
UndoAfterEditRestores ==
    [][(/\ last.op = "apply"
        /\ pre.image # Val(None)
        /\ last'.op = "undo")
       => Val(image') = pre.image]_vars

\* An Undo right after an edit that had changed the buffer's dimensions.
UndoAfterEditRestoresReached ==
    /\ last.op = "undo"
    /\ last.done
    /\ last.after = "apply"
    /\ pre.image.w # image.w
    /\ redo_stack # <<>>
    /\ undo_stack # <<>>

\* C3: in a slider gesture that starts with the preview baseline unset and
\* the current buffer equal to I, the first event pushes one entry equal to I
\* onto undo_stack, later events leave undo_stack and redo_stack as they are
\* (so undo_stack holds what it held before the gesture plus I), and after
\* each event the current buffer is the event's transform of I with the
\* event's own value.
GestureOneEntryFromBaseline ==
    [][(gesture'.active /\ gesture'.unset)
       => /\ Vals(undo_stack') = Append(gesture'.undo0, gesture'.I)
          /\ Val(image') = SliderTransform(last'.op, gesture'.I, last'.n)
          /\ gesture.active
             => /\ Vals(undo_stack') = Vals(undo_stack)
                /\ Vals(redo_stack') = Vals(redo_stack)
          /\ ~gesture.active
             => /\ Vals(undo_stack') = Append(Vals(undo_stack), Val(image))
                /\ gesture'.I = Val(image)]_vars

\* A later brightness event of a gesture that began on a non-empty history,
\* after an earlier event of the gesture had shown a different frame.
GestureOneEntryFromBaselineReached ==
    /\ gesture.active
    /\ gesture.unset
    /\ ~gesture.first
    /\ last.op = "do_brightness"
    /\ gesture.undo0 # <<>>
    /\ pre.image # gesture.I
    /\ pre.image # Val(image)
    /\ Val(image) # gesture.I

\* C9: after a load that succeeded undo_stack and redo_stack are empty, the
\* preview baseline is unset and the current buffer is the image read.
LoadResetsHistory ==
    (last.op = "open_image" /\ last.done)
    => /\ undo_stack = <<>>
       /\ redo_stack = <<>>
       /\ original_for_sliders = None
       /\ Val(image) = Val(imread(App, last.path))
       /\ image # None

\* A load that found entries on undo_stack and the preview baseline armed.
LoadResetsHistoryReached ==
    /\ last.op = "open_image"
    /\ last.done
    /\ Len(pre.undo_stack) = 2
    /\ pre.armed
    /\ pre.image # Val(image)

\* C10: a discrete edit through apply, an undo, a redo or a load that leaves
\* a buffer to work on leaves the preview baseline unset, and the slider
\* event that follows it takes a copy of the buffer as it stands as the
\* baseline and pushes one entry equal to it onto undo_stack.
NonPreviewActionEndsGesture ==
    [][/\ (last'.op \in NonPreviewOps /\ image' # None)
          => original_for_sliders' = None
       /\ (last.op \in NonPreviewOps /\ last'.op \in SliderOps /\ image # None)
          => /\ original_for_sliders = None
             /\ Val(original_for_sliders') = Val(image)
             /\ Vals(undo_stack') = Append(Vals(undo_stack), Val(image))
             /\ Val(image') = SliderTransform(last'.op, Val(image), last'.n)]_vars

\* The first slider event after an undo, on a history of one entry: the
\* baseline and the new entry are the buffer the undo restored.
NonPreviewActionEndsGestureReached ==
    /\ gesture.active
    /\ gesture.first
    /\ gesture.after = "undo"
    /\ last.op \in SliderOps
    /\ Val(original_for_sliders) = pre.image
    /\ Val(Top(undo_stack)) = pre.image
    /\ Len(undo_stack) = 2

\* C11: while no image is loaded, a discrete edit, a slider event, an undo
\* request and a redo request each leave the current buffer absent and leave
\* undo_stack, redo_stack and the preview baseline exactly as they were (the
\* same objects in the same places): the handler returns at check_image.
NoImageNoEffect ==
    [][(image = None /\ last'.op \in {"apply", "undo", "redo"} \cup SliderOps)
       => /\ image' = None
          /\ undo_stack' = undo_stack
          /\ redo_stack' = redo_stack
          /\ original_for_sliders' = original_for_sliders
          /\ ~last'.done
          /\ ~last'.raised]_vars

\* An undo request made with no image while undo_stack holds entries and the
\* preview baseline is armed (a load failed in the middle of a gesture).
NoImageNoEffectReached ==
    /\ last.op = "undo"
    /\ ~last.done
    /\ image = None
    /\ undo_stack # <<>>
    /\ original_for_sliders # None

\* C12: in every reachable state of the editor the current buffer, the
\* stored original image, the preview baseline and the entries of undo_stack
\* and redo_stack are pairwise different objects: no snapshot is the current
\* buffer, and no two snapshots are one array.
SnapshotsAreIndependent ==
    LET sl == Slots(App)
    IN  \A i, j \in 1..Len(sl) :
            (i # j /\ sl[i] # None) => sl[i].id # sl[j].id

\* A state holding a current buffer, an original image, an armed baseline
\* and two history entries, where the baseline and the newest entry have the
\* same contents and the current buffer has those of the original image.
SnapshotsAreIndependentReached ==
    /\ image # None
    /\ original_image # None
    /\ original_for_sliders # None
    /\ Len(undo_stack) = 2
    /\ Val(original_for_sliders) = Val(Top(undo_stack))
    /\ Val(undo_stack[1]) = Val(original_image)

\* C13: a transform request (a discrete edit through apply, or a slider
\* event) that does not run to its end leaves the current buffer,
\* undo_stack, redo_stack and the preview baseline as they were.  The code
\* does not keep this: apply clears the baseline and pushes the buffer before
\* it calls the edit, so a resize that raises leaves both behind.
TransformIsAllOrNothing ==
    [][(last'.op \in {"apply"} \cup SliderOps /\ ~last'.done)
       => /\ image' = image
          /\ undo_stack' = undo_stack
          /\ redo_stack' = redo_stack
          /\ original_for_sliders' = original_for_sliders]_vars

\* C14: on a loaded buffer of width and height at least 1, every transform
\* the interface can request runs to its end without raising and leaves a
\* buffer of width and height at least 1.  The code does not keep this:
\* resize computes int(w * scale) and int(h * scale), which is 0 for a side
\* of 1 at scale 0.5, and cv2.resize raises on it.
TransformsAreTotal ==
    /\ image # None => (image.w >= 1 /\ image.h >= 1)
    /\ (last.op \in {"apply"} \cup SliderOps /\ pre.image # Val(None))
       => (last.done /\ ~last.raised)

---------------------------------------------------------------------------
(* Properties of ImageProcessor, checked under SpecT.                      *)

\* C15: brightness(v) maps every channel value p of every pixel to
\* min(255, max(0, p + v)) and keeps width and height.  The code does not
\* keep this: cv2.convertScaleAbs takes the absolute value of p + v before
\* it saturates, so a sum below 0 comes out as its magnitude, not as 0.
BrightnessClamps ==
    (last.op = "brightness" /\ last.done)
    => /\ image.w = pre.image.w
       /\ image.h = pre.image.h
       /\ \A r \in 1..image.h : \A c \in 1..image.w : \A ch \in 1..3 :
            image.px[r][c][ch] = Saturate(pre.image.px[r][c][ch] + last.n)

\* C16: rotate(90) turns a W x H buffer into an H x W buffer, and four
\* rotate(90) calls in a row give back the width, height and pixels the
\* buffer had.
RotateFourTimesIsIdentity ==
    /\ (last.op = "rotate" /\ last.n = 90)
       => (image.w = pre.image.h /\ image.h = pre.image.w)
    /\ (run.op = "rotate" /\ run.args = <<90, 90, 90, 90>>)
       => Val(image) = run.start

\* Four rotate(90) calls made on a buffer that is not square.
RotateFourTimesIsIdentityReached ==
    /\ run.op = "rotate"
    /\ run.args = <<90, 90, 90, 90>>
    /\ run.start.w > run.start.h
    /\ run.start.h > 1
    /\ pre.image # Val(image)

\* C17: two flip("h") calls in a row give back the buffer, in dimensions and
\* pixels; a flip with a mode other than "h" is the vertical flip, and two of
\* those in a row give back the buffer too.
FlipTwiceIsIdentity ==
    /\ (run.op = "flip" /\ Len(run.args) = 2
            /\ run.args[1] = "h" /\ run.args[2] = "h")
       => Val(image) = run.start
    /\ (run.op = "flip" /\ Len(run.args) = 2
            /\ run.args[1] # "h" /\ run.args[2] # "h")
       => Val(image) = run.start
    /\ (last.op = "flip" /\ last.n # "h")
       => Val(image) = cvFlip(pre.image, 0)

\* flip("x") then flip("v") on a buffer of more than one row.
FlipTwiceIsIdentityReached ==
    /\ run.op = "flip"
    /\ run.args = <<"x", "v">>
    /\ run.start.h > 1
    /\ run.start.w > 1
    /\ pre.image # Val(image)

\* C18: blur(k) blurs with the kernel size k' = max(1, k) made odd by adding
\* 1 when even; k' is odd and at least 1, and blur(k') gives what blur(k)
\* gave.
BlurKernelIsCoerced ==
    (last.op = "blur")
    => LET k  == last.n
           m  == IF k < 1 THEN 1 ELSE k
           kp == IF m % 2 = 0 THEN m + 1 ELSE m
           b  == set_image(App, MkBuf(Fresh(App), pre.image))
       IN  /\ BlurKernel(k) = kp
           /\ kp % 2 = 1
           /\ kp >= 1
           /\ Val(image) = GaussianBlur(pre.image, kp)
           /\ Val(image) = Val(get_image(blur(b, kp)))

\* blur(6), an even size, on a buffer it changes; blur(0) and blur(-2) are
\* reached the same way.
BlurKernelIsCoercedReached ==
    /\ last.op = "blur"
    /\ last.n = 6
    /\ image.w > 2
    /\ image.h > 1
    /\ Val(image) # pre.image

\* C19 as stated: resize(0.5) followed by resize(2.0) gives back the width
\* and height the buffer had, for every buffer.  Stated here for the runs in
\* which both calls ran to their end; an odd side breaks it (3 -> 1 -> 2).
ResizeHalfThenDoubleRestores ==
    (run.op = "resize" /\ run.args = <<50, 200>> /\ ~run.raised)
    => (image.w = run.start.w /\ image.h = run.start.h)

\* C19, amended: on a buffer of even width and even height, resize(0.5)
\* followed by resize(2.0) runs to its end and gives back the width and
\* height the buffer had.
ResizeHalfThenDoubleEven ==
    (/\ run.op = "resize"
     /\ run.args = <<50, 200>>
     /\ run.start.w % 2 = 0
     /\ run.start.h % 2 = 0)
    => /\ ~run.raised
       /\ image.w = run.start.w
       /\ image.h = run.start.h

\* resize(0.5) then resize(2.0) on a 4 x 2 buffer, by way of 2 x 1.
ResizeHalfThenDoubleEvenReached ==
    /\ run.op = "resize"
    /\ run.args = <<50, 200>>
    /\ run.start.w = 4
    /\ run.start.h = 2
    /\ pre.image.w = 2
    /\ pre.image.h = 1

\* n / d rounded to the nearest integer, halves upwards.
RoundHalfUp(n, d) == (2 * n + d) \div (2 * d)

\* W * scale rounded, by either convention for halves.
Rounded(n, pct) == {RoundHalfEven(n * pct, 100), RoundHalfUp(n * pct, 100)}

\* C20: resize(scale), for the scales 0.5, 1.5 and 2.0, turns a W x H buffer
\* into one of width round(W * scale) and height round(H * scale).  The code
\* does not keep this: it truncates with int(), so 1.5 becomes 1, not 2.
ResizeRounds ==
    (last.op = "resize" /\ last.done)
    => /\ image.w \in Rounded(pre.image.w, last.n)
       /\ image.h \in Rounded(pre.image.h, last.n)

---------------------------------------------------------------------------
\* C21: history depth is never cut.  From a freshly loaded image I with empty
\* history, after n discrete edit requests and no undo or redo among them
\* undo_stack holds exactly n entries, the buffers the n requests found, in
\* order; the k-th of the undos that follow makes the current buffer the one
\* the (n - k + 1)-th request found; and after the n-th undo it is I again.
HistoryDepthNotTruncated ==
    trail.ok =>
        LET n == Len(trail.bufs)
            k == trail.undos
        IN  /\ Len(undo_stack) = n - k
            /\ k = 0 => Vals(undo_stack) = trail.bufs
            /\ k > 0 => Val(image) = trail.bufs[n - k + 1]
            /\ (n > 0 /\ k = n) => Val(image) = trail.I

HistoryDepthNotTruncatedReached ==
    /\ trail.ok
    /\ Len(trail.bufs) = MaxDepth
    /\ trail.undos = MaxDepth
    /\ \A i, j \in 1..MaxDepth : i # j => trail.bufs[i] # trail.bufs[j]
    /\ Val(image) = trail.I

---------------------------------------------------------------------------
\* An undo request that finds undo_stack empty, or a redo request that finds
\* redo_stack empty.
Underflow ==
    \/ last'.op = "undo" /\ undo_stack = <<>>
    \/ last'.op = "redo" /\ redo_stack = <<>>

KeepsBufferAndStacks ==
    /\ Val(image') = Val(image)
    /\ Vals(undo_stack') = Vals(undo_stack)
    /\ Vals(redo_stack') = Vals(redo_stack)

\* C22 as stated: an undo on an empty undo_stack and a redo on an empty
\* redo_stack change nothing, the preview baseline (armed or not) included.
UnderflowChangesNothing ==
    [][Underflow =>
           /\ KeepsBufferAndStacks
           /\ Val(original_for_sliders') = Val(original_for_sliders)
           /\ (original_for_sliders' = None) = (original_for_sliders = None)]_vars

\* C22, amended: an undo on an empty undo_stack and a redo on an empty
\* redo_stack leave the current buffer and both stacks as they were; with an
\* image loaded the preview baseline is unset after the request (an armed one
\* is cleared), with none loaded it is as it was.
UnderflowKeepsHistory ==
    [][Underflow =>
           /\ KeepsBufferAndStacks
           /\ IF image # None
              THEN original_for_sliders' = None
              ELSE /\ Val(original_for_sliders') = Val(original_for_sliders)
                   /\ (original_for_sliders' = None)
                          = (original_for_sliders = None)]_vars

\* A redo requested during a slider gesture, with nothing to redo.
UnderflowKeepsHistoryReached ==
    /\ last.op = "redo" /\ last.done /\ last.after = "gesture"
    /\ pre.redo_stack = <<>> /\ redo_stack = <<>>
    /\ Val(image) = pre.image /\ Vals(undo_stack) = pre.undo_stack
    /\ original_for_sliders = None

---------------------------------------------------------------------------
\* C23: when a slider fires during a gesture whose last event came from a
\* different slider (the preview baseline armed, no other handler in
\* between), undo_stack and redo_stack stay as they are, the baseline stays
\* the same, and the current buffer becomes the second slider's transform of
\* the baseline alone.
OtherSliderRecomputesFromBaseline ==
    [][(/\ gesture.active
        /\ original_for_sliders # None
        /\ last.op \in SliderOps
        /\ last'.op \in SliderOps
        /\ last'.op # last.op)
       => /\ Vals(undo_stack') = Vals(undo_stack)
          /\ Vals(redo_stack') = Vals(redo_stack)
          /\ Val(original_for_sliders') = Val(original_for_sliders)
          /\ Val(image') = SliderTransform(last'.op, Val(original_for_sliders),
                                           last'.n)]_vars

\* A brightness event that found the blurred baseline on display: the frame it
\* leaves is the brightened baseline, not the brightened blur.
OtherSliderRecomputesFromBaselineReached ==
    /\ gesture.active /\ ~gesture.first
    /\ last.op = "do_brightness"
    /\ \E v \in BlurValues :
           /\ pre.image = SliderTransform("do_blur", gesture.I, v)
           /\ pre.image # gesture.I
    /\ Val(image) = SliderTransform("do_brightness", gesture.I, last.n)
    /\ Val(image) # SliderTransform("do_brightness", pre.image, last.n)
    /\ Vals(undo_stack) = Append(gesture.undo0, gesture.I)

---------------------------------------------------------------------------
\* C24: an undo requested at the end of a slider gesture that began on buffer
\* I and ended on frame F makes the current buffer I, leaves undo_stack as it
\* was before the gesture and F alone on redo_stack; the redo that follows
\* makes the current buffer F and leaves the stacks as the gesture left them.
\* No other frame of the gesture is on either stack, so none is ever
\* returned.
GestureUndoneAndRedoneAsOne ==
    [][/\ (gesture.active /\ last'.op = "undo")
          => /\ Val(image') = gesture.I
             /\ Vals(undo_stack') = gesture.undo0
             /\ Vals(redo_stack') = <<Val(image)>>
       /\ (/\ last.op = "undo" /\ last.done /\ last.after = "gesture"
           /\ last'.op = "redo")
          => /\ Val(image') = pre.image
             /\ Vals(undo_stack') = pre.undo_stack
             /\ redo_stack' = <<>>]_vars

\* The redo after the undo of a gesture: it found I and shows a preview frame
\* of I that differs from I.
GestureUndoneAndRedoneAsOneReached ==
    /\ last.op = "redo" /\ last.done /\ last.after = "gesture-undo"
    /\ Val(image) # pre.image
    /\ \E op \in SliderOps :
           \E n \in BlurValues \cup BrightnessValues \cup ContrastValues :
               Val(image) = SliderTransform(op, pre.image, n)
    /\ Vals(undo_stack) = Append(pre.undo_stack, pre.image)
    /\ redo_stack = <<>>

---------------------------------------------------------------------------
HistorySize == Len(undo_stack) + Len(redo_stack)

\* C25: an undo that finds undo_stack non-empty (and a current buffer) takes
\* the top entry off undo_stack and adds one entry to redo_stack; a redo that
\* finds redo_stack non-empty does the same the other way; the entries that
\* stay keep their contents and order.  No undo or redo changes
\* len(undo_stack) + len(redo_stack); a call that changes it is a push.
UndoRedoMoveOneEntry ==
    [][/\ last'.op \in {"HistoryManager.undo", "HistoryManager.redo"}
          => HistorySize' = HistorySize
       /\ (/\ last'.op = "HistoryManager.undo"
           /\ undo_stack # <<>> /\ image # None)
          => /\ Len(undo_stack') = Len(undo_stack) - 1
             /\ Len(redo_stack') = Len(redo_stack) + 1
             /\ Vals(undo_stack') = Vals(Front(undo_stack))
             /\ Vals(Front(redo_stack')) = Vals(redo_stack)
       /\ (/\ last'.op = "HistoryManager.redo"
           /\ redo_stack # <<>> /\ image # None)
          => /\ Len(redo_stack') = Len(redo_stack) - 1
             /\ Len(undo_stack') = Len(undo_stack) + 1
             /\ Vals(redo_stack') = Vals(Front(redo_stack))
             /\ Vals(Front(undo_stack')) = Vals(undo_stack)
       /\ HistorySize' # HistorySize
          => last'.op = "HistoryManager.push"]_vars

\* A redo that found one entry on undo_stack and two different ones on
\* redo_stack: three entries before, three after.
UndoRedoMoveOneEntryReached ==
    /\ last.op = "HistoryManager.redo" /\ last.done
    /\ Len(pre.undo_stack) = 1
    /\ Len(pre.redo_stack) = 2
    /\ pre.redo_stack[1] # pre.redo_stack[2]
    /\ Len(undo_stack) = 2 /\ Len(redo_stack) = 1
    /\ Vals(redo_stack) = Front(pre.redo_stack)

---------------------------------------------------------------------------
\* C27: an open_image whose file gives no image (imread returns None) leaves
\* the current buffer, undo_stack, redo_stack, the preview baseline and
\* original_image as they were.
FailedOpenChangesNothing ==
    [][(last'.op = "open_image" /\ last'.raised)
       => /\ Val(image') = Val(image)
          /\ (image' = None) = (image = None)
          /\ Vals(undo_stack') = Vals(undo_stack)
          /\ Vals(redo_stack') = Vals(redo_stack)
          /\ Val(original_for_sliders') = Val(original_for_sliders)
          /\ (original_for_sliders' = None) = (original_for_sliders = None)
          /\ Val(original_image') = Val(original_image)]_vars

---------------------------------------------------------------------------
\* What Reset does when it finds an image on display and the image loaded
\* last, I, stored: the current buffer becomes I, the preview baseline is
\* unset, one entry (the buffer Reset found) is added to undo_stack and
\* redo_stack is emptied.
ResetStep ==
    (last'.op = "reset_image" /\ image # None /\ original_image # None)
    => /\ Val(image') = trail.I
       /\ original_for_sliders' = None
       /\ Vals(undo_stack') = Append(Vals(undo_stack), Val(image))
       /\ redo_stack' = <<>>

\* original_image changes at a load only.
OriginalKept ==
    last'.op # "open_image" => Val(original_image') = Val(original_image)

\* The undo requested next after a Reset shows the buffer the Reset found.
UndoAfterReset ==
    (trail.bufs # <<>> /\ last'.op = "undo") => Val(image') = trail.bufs[1]

\* C26: after any edits, slider events, undos and redos since the last
\* successful load of I, Reset makes the current buffer I (original_image is
\* altered by a load only), unsets the preview baseline, pushes exactly one
\* entry and empties redo_stack, and the undo requested next restores the
\* buffer as it was just before the Reset.
ResetRestoresOriginalUndoably ==
    [][ResetStep /\ OriginalKept /\ UndoAfterReset]_vars

=============================================================================
